---------------------------- MODULE Spec2Model ----------------------------
(***************************************************************************)
(* Model of the incremental crawl-and-ingest engine of the Indian-laws     *)
(* scraper: law_crawler.py and repealed_crawler_final.py.                  *)
(*                                                                         *)
(* Text is modelled as sequences of one-character strings.  Files are      *)
(* flat character sequences, written and parsed as the code does it.       *)
(***************************************************************************)
EXTENDS Integers, Sequences, FiniteSets, TLC

VARIABLES
    variant,                    \* which crawler runs: "law_crawler" or "repealed_crawler_final"
    catalog,                    \* what the navigation layer shows: the pages and their rows
    repealed_file,              \* repealed_law_names.json
    repealed_names,             \* load_repealed_laws(): the exclusion registry
    failed_laws,                \* load_failed_laws() (repealed_crawler_final only)
    processed_files,            \* the in-memory history set
    histFile,                   \* download_history.txt
    failFile,                   \* failed_downloads.txt
    progress,                   \* progress.json
    local,                      \* indian_laws_pdfs/: identifier -> content kind
    remote,                     \* the S3 bucket: key -> content kind
    pc,                         \* position in scrape_india_code
    page_num, idx,              \* current page number, current row index (0-based)
    links_found_on_page, new_downloads_on_page,
    total_downloaded, skipped_repealed, skipped_already_downloaded, skipped_failed,
    consecutive_empty_pages, consecutive_skipped,
    law_name, pdf_filename,     \* the row being processed
    pdf_downloaded, detail_attempt, pdf_links, pdf_idx,
    attempt, dlResult,          \* download_pdf: loop index, return value
    httpLog, sleeps,            \* download_pdf: responses received and sleeps done in this call
    rowInfo,                    \* what happened to the row being processed
    log,                        \* the row decisions taken so far
    stopReason,                 \* why the page loop ended
    runInfo,                    \* the history at startup, the uploads confirmed in this run
    q_name, q_reg, q_res,       \* a direct call is_repealed(q_name, q_reg) and its result
    s_name, s_ids,              \* direct calls sanitize_filename(s_name + ".pdf") and their results
    args,                       \* the run mode given on the command line
    laws,                       \* what scrape_repealed_laws() returned: the names, in order
    browser,                    \* the browser of scrape_india_code: "none", "open", "closed"
    search_attempt,             \* the attempt of the startup search loop
    diagnostics                 \* error_screenshot.png / error_page_content.html

crawlVars ==
    << variant, catalog, repealed_file, repealed_names, failed_laws, processed_files,
       histFile,
       failFile, progress, local, remote, pc, page_num, idx, links_found_on_page,
       new_downloads_on_page, total_downloaded, skipped_repealed,
       skipped_already_downloaded, skipped_failed, consecutive_empty_pages,
       consecutive_skipped, law_name, pdf_filename, pdf_downloaded, detail_attempt,
       pdf_links, pdf_idx, attempt, dlResult, httpLog, sleeps, rowInfo, log,
       stopReason, runInfo >>

sanitizeVars == << s_name, s_ids >>

sessionVars == << args, laws, browser, search_attempt, diagnostics >>

(* What the page loop of scrape_india_code never touches *)
queryVars == << q_name, q_reg, q_res, sanitizeVars, sessionVars >>

vars == << crawlVars, queryVars >>

----------------------------------------------------------------------------
(* Program constants *)

SkipAheadThreshold == 20
MaxAttempts == 3
LastSleepAttempt == 2
DetailAttempts == 2
EmptyPageLimit == 10
MaxFilenameLen == 200
max_retries == 3

(* Bounds of the model *)

MaxLinks == 2
MaxFetchRows == 1
ExtraRows == 5
MaxNameLen == 2
MaxEntryLen == 3
MaxRuns == 2
MaxCalls == 2
MaxTitleLen == 2

----------------------------------------------------------------------------
(* Text *)

Whitespace == {" ", "\t", "\n"}

Boundary == {",", " ", "("}

ForbiddenChars == {"<", ">", ":", "\"", "/", "\\", "|", "?", "*"}

LowerChar(c) ==
    CASE c = "A" -> "a"
      [] c = "F" -> "f"
      [] c = "I" -> "i"
      [] OTHER -> c

LowerStr(s) == [i \in 1..Len(s) |-> LowerChar(s[i])]

RECURSIVE SplitWords(_)
SplitWords(s) ==
    IF s = << >> THEN << >>
    ELSE IF Head(s) \in Whitespace THEN SplitWords(Tail(s))
    ELSE LET rest == SplitWords(Tail(s))
         IN  IF Len(s) > 1 /\ s[2] \notin Whitespace
             THEN << <<Head(s)>> \o Head(rest) >> \o Tail(rest)
             ELSE << <<Head(s)>> >> \o rest

RECURSIVE JoinWords(_)
JoinWords(ws) ==
    IF ws = << >> THEN << >>
    ELSE IF Len(ws) = 1 THEN Head(ws)
    ELSE Head(ws) \o <<" ">> \o JoinWords(Tail(ws))

Normalize_nolower(s) == JoinWords(SplitWords(s))

(* " ".join(law_name.lower().split()) *)
Normalize(s) == JoinWords(SplitWords(LowerStr(s)))

StartsWith(s, p) == Len(p) <= Len(s) /\ SubSeq(s, 1, Len(p)) = p

is_repealed_noboundary(name, names) ==
    LET norm_name == Normalize(name)
    IN  \E repealed \in names : StartsWith(Normalize(repealed), norm_name)

is_repealed_nospace(name, names) ==
    LET norm_name == Normalize(name)
    IN  \E repealed \in names :
            LET norm_repealed == Normalize(repealed)
            IN  /\ StartsWith(norm_repealed, norm_name)
                /\ \/ Len(norm_repealed) = Len(norm_name)
                   \/ norm_repealed[Len(norm_name) + 1] \in {",", "("}

is_repealed(name, names) ==
    LET norm_name == Normalize(name)
    IN  \E repealed \in names :
            LET norm_repealed == Normalize(repealed)
            IN  /\ StartsWith(norm_repealed, norm_name)
                /\ \/ Len(norm_repealed) = Len(norm_name)
                   \/ norm_repealed[Len(norm_name) + 1] \in Boundary

Strip(s) ==
    LET keep == {i \in 1..Len(s) : s[i] \notin Whitespace}
    IN  IF keep = {} THEN << >>
        ELSE LET lo == CHOOSE i \in keep : \A j \in keep : i <= j
                 hi == CHOOSE i \in keep : \A j \in keep : j <= i
             IN  SubSeq(s, lo, hi)

(* The text of s before the first occurrence of sep: s.split(sep)[0] *)
UpTo(s, sep) ==
    LET at == {i \in 1..Len(s) : s[i] = sep}
    IN  IF at = {} THEN s
        ELSE SubSeq(s, 1, (CHOOSE i \in at : \A j \in at : i <= j) - 1)

(* The lines of a text file, without their line terminators *)
RECURSIVE Lines(_)
Lines(f) ==
    IF f = << >> THEN << >>
    ELSE LET first == UpTo(f, "\n")
         IN  IF Len(first) >= Len(f) - 1 THEN << first >>
             ELSE << first >> \o Lines(SubSeq(f, Len(first) + 2, Len(f)))

PdfSuffix == << ".", "p", "d", "f" >>

sanitize_filename_notrunc(filename) ==
    [i \in 1..Len(filename) |->
        IF filename[i] \in ForbiddenChars THEN "_" ELSE filename[i]]

sanitize_filename(filename) ==
    LET replaced == [i \in 1..Len(filename) |->
                        IF filename[i] \in ForbiddenChars THEN "_" ELSE filename[i]]
    IN  IF Len(replaced) > MaxFilenameLen
        THEN SubSeq(replaced, 1, MaxFilenameLen)
        ELSE replaced

(* fname.rsplit('.pdf', 1)[0].replace('_', ' '): the text before the last ".pdf", *)
(* its underscores turned into spaces                                            *)
RecoverName(fname) ==
    LET at == {i \in 1..(Len(fname) - 3) : SubSeq(fname, i, i + 3) = PdfSuffix}
        stem == IF at = {} THEN fname
                ELSE SubSeq(fname, 1, (CHOOSE i \in at : \A j \in at : j <= i) - 1)
    IN  [i \in 1..Len(stem) |-> IF stem[i] = "_" THEN " " ELSE stem[i]]

(* repealed_law_names.json: missing, unreadable as JSON, or holding a list of names *)
NoRegistryFile == [exists |-> FALSE, valid |-> FALSE, names |-> {}]
BrokenRegistryFile == [exists |-> TRUE, valid |-> FALSE, names |-> {}]
RegistryFile(names) == [exists |-> TRUE, valid |-> TRUE, names |-> names]

load_repealed_laws_cached(file) ==
    IF file.exists /\ file.valid THEN file.names ELSE {<< "r", "e", "p" >>}

load_repealed_laws(file) ==
    IF file.exists /\ file.valid THEN file.names ELSE {}

load_processed_laws(file) ==
    LET ls == Lines(file)
    IN  {Strip(ls[i]) : i \in {j \in 1..Len(ls) : Strip(ls[j]) # << >>}}

load_failed_laws(file) ==
    LET ls == Lines(file)
    IN  {Strip(UpTo(ls[i], "|")) : i \in {j \in 1..Len(ls) : Strip(ls[j]) # << >>}}

save_processed_law_overwrite(file, name) == name \o << "\n" >>

(* open(PROCESSED_LAWS_FILE, 'a') and write of one line *)
save_processed_law(file, name) == file \o name \o << "\n" >>

save_failed_law(file, name, reason) == file \o name \o << "|", reason, "\n" >>

Max(a, b) == IF a >= b THEN a ELSE b

update_progress(total, processed, current_page, current_row, skipped) ==
    [ total_laws_approx |-> total,
      processed_count   |-> processed,
      skipped_repealed  |-> skipped,
      files_left_approx |-> Max(0, total - processed - skipped),
      current_page      |-> current_page,
      current_row       |-> current_row,
      last_updated      |-> "running" ]

NoProgress ==
    [ total_laws_approx |-> 0, processed_count |-> 0, skipped_repealed |-> 0,
      files_left_approx |-> 0, current_page |-> 0, current_row |-> 0,
      last_updated |-> "absent" ]

----------------------------------------------------------------------------
(* The catalog the navigation layer shows, and the files found at startup *)

OldAct == << "o", "l", "d" >>
RepAct == << "r", "e", "p" >>
NewAct == << "n", "e", "w" >>
RepEntry == << "r", "e", "p", ",", " ", "1" >>
SlashAct == << "a", "/", "b" >>
ColonAct == << "a", ":", "b" >>
PipeAct == << "a", "|", "b" >>

PdfName(name) == sanitize_filename(name \o PdfSuffix)

CrawlNames == {OldAct, RepAct, NewAct, SlashAct, ColonAct, PipeAct}

AllIds == {PdfName(n) : n \in CrawlNames}

R(n) == [link |-> TRUE, name |-> n, href |-> TRUE]
NoHrefRow(n) == [link |-> TRUE, name |-> n, href |-> FALSE]
NoLinkRow == [link |-> FALSE, name |-> << >>, href |-> FALSE]

Run(k, r) == [i \in 1..k |-> r]

RowKinds == {R(OldAct), R(RepAct), R(NewAct), NoLinkRow}

ShortPages ==
    {<< a >> : a \in RowKinds} \cup {<< a, b >> : a \in RowKinds, b \in RowKinds}
        \cup {<< R(OldAct), R(RepAct), R(NewAct) >>, << NoHrefRow(NewAct), R(NewAct) >>}

RunLengths == {SkipAheadThreshold - 1, SkipAheadThreshold, SkipAheadThreshold + ExtraRows}

LongPages ==
    {Run(k, R(n)) \o tail : k \in RunLengths, n \in {OldAct, RepAct},
                            tail \in {<< R(RepAct), R(NewAct) >>, << R(OldAct), R(NewAct) >>}}

(* Two laws whose titles differ in one character that no file name may hold *)
SimilarTitles == {[pages |-> << << R(SlashAct), R(ColonAct) >> >>, lastNext |-> "disabled"]}

Catalogs ==
    {[pages |-> << p >>, lastNext |-> "disabled"] : p \in ShortPages \cup LongPages}
        \cup {[pages |-> << Run(k, R(OldAct)), << R(OldAct), R(NewAct) >> >>,
               lastNext |-> "disabled"] : k \in RunLengths}
        \cup {[pages |-> << << R(NewAct) >>, << NoLinkRow >> >>, lastNext |-> "absent"],
              [pages |-> Run(EmptyPageLimit + 1, << NoLinkRow >>), lastNext |-> "disabled"]}
        \cup {[pages |-> Run(EmptyPageLimit - 1, << NoLinkRow >>) \o << << R(OldAct) >> >>
                            \o Run(2, << NoLinkRow >>),
               lastNext |-> "disabled"]}
        \cup SimilarTitles

Rows == IF page_num \in 1..Len(catalog.pages) THEN catalog.pages[page_num] ELSE << >>

NextButton ==
    IF page_num < Len(catalog.pages) THEN "enabled" ELSE catalog.lastNext

RECURSIVE CountRows(_)
CountRows(pages) ==
    IF pages = << >> THEN 0 ELSE Len(Head(pages)) + CountRows(Tail(pages))

total_laws_count == CountRows(catalog.pages)

RECURSIVE HistoryText(_)
HistoryText(ids) ==
    IF ids = {} THEN << >>
    ELSE LET id == CHOOSE x \in ids : TRUE
         IN  save_processed_law(HistoryText(ids \ {id}), id)

Variants == {"law_crawler", "repealed_crawler_final"}

IsLawCrawler == variant = "law_crawler"

(* The rows of the catalog that neither the history nor the registry excludes *)
RECURSIVE OpenRows(_, _, _)
OpenRows(rows, hist, registry) ==
    IF rows = << >> THEN 0
    ELSE OpenRows(Tail(rows), hist, registry)
            + (IF /\ Head(rows).link
                  /\ Head(rows).href
                  /\ PdfName(Head(rows).name) \notin hist
                  /\ ~is_repealed(Head(rows).name, registry)
               THEN 1 ELSE 0)

RECURSIVE Flatten(_)
Flatten(pages) == IF pages = << >> THEN << >> ELSE Head(pages) \o Flatten(Tail(pages))

NoRowInfo ==
    [fetch |-> FALSE, dl |-> "none", up |-> "none", rm |-> "none", tried |-> << >>,
     hist0 |-> {}, histFile0 |-> << >>, failFile0 |-> << >>,
     local0 |-> "absent", exc |-> FALSE]

(* What a run finds at startup: nothing, the files of an earlier run, or the  *)
(* files of an earlier run that ingested a law the registry has listed since *)
StartFiles ==
    { [history |-> {}, registry |-> NoRegistryFile],
      [history |-> {PdfName(OldAct)}, registry |-> BrokenRegistryFile],
      [history |-> {PdfName(OldAct)}, registry |-> RegistryFile({RepEntry})],
      [history |-> {PdfName(OldAct), PdfName(RepAct)}, registry |-> RegistryFile({RepEntry})] }

NoRunInfo ==
    [hist0 |-> {}, uploaded |-> {}, run |-> 1, out |-> << >>,
     prevOut |-> << >>, prevHist |-> {}, prevHistFile |-> << >>,
     scanned |-> << >>, navs |-> 0,
     appended |-> {}, crashed |-> FALSE, inflight |-> {}, lostHist |-> {},
     lostUploaded |-> {}, lostAppended |-> {}, failFile0 |-> << >>,
     norows |-> FALSE]

(* repealed_crawler_final goes through its S3 clean-up before the page loop *)
(* scrape_india_code called with the listing already on screen: the page loop *)
(* is what Spec and SpecRuns follow; a session goes through the browser      *)
(* launch, the search and the table first                                    *)
DirectCall ==
    /\ args = "direct"
    /\ laws = << >>
    /\ browser = "open"
    /\ search_attempt = 0
    /\ diagnostics = "none"

BeforePages == IF args = "direct" THEN "page" ELSE "launch"

StartPc == IF IsLawCrawler THEN BeforePages ELSE "reconcile"

StartState(catalogs, open) ==
    /\ variant \in Variants
    /\ catalog \in catalogs
    /\ \E s \in StartFiles :
          /\ repealed_file = s.registry
          /\ repealed_names = load_repealed_laws(repealed_file)
          /\ histFile = HistoryText(s.history)
          /\ processed_files = load_processed_laws(histFile)
          /\ remote = [id \in AllIds |-> IF id \in s.history THEN "pdf" ELSE "absent"]
    /\ \/ OpenRows(Flatten(catalog.pages), processed_files, repealed_names) <= open
       \/ catalog \in SimilarTitles /\ processed_files = {}
    /\ failFile \in {<< >>} \cup
          (IF IsLawCrawler THEN {}
           ELSE {save_failed_law(<< >>, NewAct, "No PDF links found")})
    /\ failed_laws = IF variant = "repealed_crawler_final"
                     THEN load_failed_laws(failFile) ELSE {}
    /\ \E k \in {"absent", "pdf"} :
          local = [id \in AllIds |-> IF id = PdfName(NewAct) THEN k ELSE "absent"]
    /\ progress = NoProgress
    /\ page_num = 1
    /\ idx = 0
    /\ links_found_on_page = 0
    /\ new_downloads_on_page = 0
    /\ total_downloaded = 0
    /\ skipped_repealed = 0
    /\ skipped_already_downloaded = 0
    /\ skipped_failed = 0
    /\ consecutive_empty_pages = 0
    /\ consecutive_skipped = 0
    /\ law_name = << >>
    /\ pdf_filename = << >>
    /\ pdf_downloaded = FALSE
    /\ detail_attempt = 0
    /\ pdf_links = 0
    /\ pdf_idx = 0
    /\ attempt = 0
    /\ dlResult = FALSE
    /\ httpLog = << >>
    /\ sleeps = 0
    /\ rowInfo = NoRowInfo
    /\ log = << >>
    /\ stopReason = "running"
    /\ runInfo = [NoRunInfo EXCEPT !.hist0 = processed_files]

CrawlStart(catalogs, open) ==
    /\ StartState(catalogs, open)
    /\ DirectCall
    /\ pc = StartPc

CrawlInit == CrawlStart(Catalogs, MaxFetchRows)

SanitizeIdle ==
    /\ s_name = << >>
    /\ s_ids = << >>

QueryIdle ==
    /\ q_name = << >>
    /\ q_reg = {}
    /\ q_res = "idle"
    /\ SanitizeIdle

Init == CrawlInit /\ QueryIdle

----------------------------------------------------------------------------
(* scrape_india_code: the page loop and the row decision *)

envVars == << variant, catalog, repealed_file, repealed_names, failed_laws >>
storeVars == << processed_files, histFile, local, remote >>
counterVars == << total_downloaded, skipped_repealed, skipped_already_downloaded,
                  skipped_failed >>
pageVars == << page_num, links_found_on_page, new_downloads_on_page,
               consecutive_empty_pages >>
detailVars == << pdf_downloaded, detail_attempt, pdf_links, pdf_idx >>
dlVars == << attempt, dlResult, httpLog, sleeps >>

CurRow == Rows[idx + 1]

LogEntry(decision) ==
    [page |-> page_num, row |-> idx, decision |-> decision, cs |-> consecutive_skipped]

Snapshot(row) ==
    update_progress(total_laws_count, Cardinality(processed_files) + total_downloaded,
                    page_num, row, skipped_repealed)

(* The checks of one row, in the order the code makes them *)
Decision_registry_first(row) ==
    IF ~row.link THEN "nolink"
    ELSE IF is_repealed(row.name, repealed_names) THEN "repealed"
    ELSE IF PdfName(row.name) \in processed_files THEN "already"
    ELSE IF ~IsLawCrawler /\ row.name \in failed_laws THEN "failed"
    ELSE IF ~row.href THEN "nohref"
    ELSE "fetch"

Decision(row) ==
    IF ~row.link THEN "nolink"
    ELSE IF PdfName(row.name) \in processed_files THEN "already"
    ELSE IF is_repealed(row.name, repealed_names) THEN "repealed"
    ELSE IF ~IsLawCrawler /\ row.name \in failed_laws THEN "failed"
    ELSE IF ~row.href THEN "nohref"
    ELSE "fetch"

(* The identifiers of the history whose recovered name the registry lists *)
repealed_downloaded(history) ==
    {fname \in history : is_repealed(RecoverName(fname), repealed_names)}

(* delete_object for each of them; a failed deletion is printed and passed over *)
Reconcile ==
    /\ pc = "reconcile"
    /\ \E deleted \in SUBSET repealed_downloaded(processed_files) :
          remote' = [id \in DOMAIN remote |-> IF id \in deleted THEN "absent" ELSE remote[id]]
    /\ pc' = BeforePages
    /\ UNCHANGED << queryVars, envVars, processed_files, histFile, local, failFile, progress,
                    counterVars, pageVars, idx, consecutive_skipped, law_name,
                    pdf_filename, detailVars, dlVars, rowInfo, log, stopReason, runInfo >>

AtRow(decision) ==
    /\ pc = "row"
    /\ idx < Len(Rows)
    /\ Decision(CurRow) = decision

PageBegin ==
    /\ pc = "page"
    /\ links_found_on_page' = 0
    /\ new_downloads_on_page' = 0
    /\ idx' = 0
    /\ pc' = "row"
    /\ runInfo' = [runInfo EXCEPT !.scanned = Append(@, page_num)]
    /\ UNCHANGED << queryVars, envVars, storeVars, failFile, progress, counterVars, page_num,
                    consecutive_empty_pages, consecutive_skipped, law_name, pdf_filename,
                    detailVars, dlVars, rowInfo, log, stopReason >>

RowNoLink ==
    /\ AtRow("nolink")
    /\ idx' = idx + 1
    /\ log' = Append(log, LogEntry("nolink"))
    /\ UNCHANGED << queryVars, envVars, storeVars, failFile, progress, counterVars, pageVars, pc,
                    consecutive_skipped, law_name, pdf_filename, detailVars, dlVars,
                    rowInfo, stopReason, runInfo >>

SkipAhead_late(count) == IsLawCrawler /\ count > SkipAheadThreshold

SkipAhead(count) == IsLawCrawler /\ count >= SkipAheadThreshold

RowAlreadyDownloaded ==
    /\ AtRow("already")
    /\ links_found_on_page' = links_found_on_page + 1
    /\ law_name' = CurRow.name
    /\ pdf_filename' = PdfName(CurRow.name)
    /\ skipped_already_downloaded' = skipped_already_downloaded + 1
    /\ consecutive_skipped' = IF IsLawCrawler THEN consecutive_skipped + 1 ELSE consecutive_skipped
    /\ progress' = Snapshot(idx)
    /\ IF SkipAhead(consecutive_skipped')
       THEN pc' = "break" /\ idx' = idx
       ELSE pc' = "row" /\ idx' = idx + 1
    /\ log' = Append(log, LogEntry("already"))
    /\ UNCHANGED << queryVars, envVars, storeVars, failFile, total_downloaded, skipped_repealed,
                    skipped_failed, page_num, new_downloads_on_page,
                    consecutive_empty_pages, detailVars, dlVars, rowInfo, stopReason,
                    runInfo >>

RowRepealed ==
    /\ AtRow("repealed")
    /\ links_found_on_page' = links_found_on_page + 1
    /\ law_name' = CurRow.name
    /\ pdf_filename' = PdfName(CurRow.name)
    /\ skipped_repealed' = skipped_repealed + 1
    /\ consecutive_skipped' = IF IsLawCrawler THEN consecutive_skipped + 1 ELSE consecutive_skipped
    /\ progress' = update_progress(total_laws_count,
                                   Cardinality(processed_files) + total_downloaded,
                                   page_num, idx, skipped_repealed')
    /\ idx' = idx + 1
    /\ log' = Append(log, LogEntry("repealed"))
    /\ UNCHANGED << queryVars, envVars, storeVars, failFile, total_downloaded,
                    skipped_already_downloaded, skipped_failed, page_num,
                    new_downloads_on_page, consecutive_empty_pages, pc, detailVars,
                    dlVars, rowInfo, stopReason, runInfo >>

RowPreviouslyFailed ==
    /\ AtRow("failed")
    /\ links_found_on_page' = links_found_on_page + 1
    /\ law_name' = CurRow.name
    /\ pdf_filename' = PdfName(CurRow.name)
    /\ skipped_failed' = skipped_failed + 1
    /\ progress' = Snapshot(idx)
    /\ idx' = idx + 1
    /\ log' = Append(log, LogEntry("failed"))
    /\ UNCHANGED << queryVars, envVars, storeVars, failFile, total_downloaded, skipped_repealed,
                    skipped_already_downloaded, page_num, new_downloads_on_page,
                    consecutive_empty_pages, consecutive_skipped, pc, detailVars, dlVars,
                    rowInfo, stopReason, runInfo >>

RowNoHref ==
    /\ AtRow("nohref")
    /\ links_found_on_page' = links_found_on_page + 1
    /\ law_name' = CurRow.name
    /\ pdf_filename' = PdfName(CurRow.name)
    /\ consecutive_skipped' = 0
    /\ idx' = idx + 1
    /\ log' = Append(log, LogEntry("nohref"))
    /\ UNCHANGED << queryVars, envVars, storeVars, failFile, progress, counterVars, page_num,
                    new_downloads_on_page, consecutive_empty_pages, pc, detailVars,
                    dlVars, rowInfo, stopReason, runInfo >>

RowFetch ==
    /\ AtRow("fetch")
    /\ links_found_on_page' = links_found_on_page + 1
    /\ law_name' = CurRow.name
    /\ pdf_filename' = PdfName(CurRow.name)
    /\ consecutive_skipped' = 0
    /\ pdf_downloaded' = FALSE
    /\ detail_attempt' = 0
    /\ pc' = "detail"
    /\ log' = Append(log, LogEntry("fetch"))
    /\ rowInfo' = [NoRowInfo EXCEPT !.fetch = TRUE, !.hist0 = processed_files,
                                    !.histFile0 = histFile, !.failFile0 = failFile]
    /\ UNCHANGED << queryVars, envVars, storeVars, failFile, progress, counterVars, page_num,
                    new_downloads_on_page, consecutive_empty_pages, idx, pdf_links,
                    pdf_idx, dlVars, stopReason, runInfo >>

(* What the fetch of the row came to: the results of download_pdf and upload_to_s3 *)
Outcome == [id |-> pdf_filename, dl |-> rowInfo.dl, up |-> rowInfo.up, exc |-> rowInfo.exc]

(* The row's loop variables are dead once the row is finished *)
RowEnd ==
    /\ pc = "rowEnd"
    /\ idx' = idx + 1
    /\ pc' = "row"
    /\ rowInfo' = NoRowInfo
    /\ pdf_downloaded' = FALSE
    /\ detail_attempt' = 0
    /\ pdf_links' = 0
    /\ pdf_idx' = 0
    /\ runInfo' = [runInfo EXCEPT !.out = Append(@, Outcome)]
    /\ UNCHANGED << queryVars, envVars, storeVars, failFile, progress, counterVars, pageVars,
                    consecutive_skipped, law_name, pdf_filename, dlVars, log, stopReason >>

Stop(reason) ==
    /\ pc' = "done"
    /\ stopReason' = reason
    /\ progress' = Snapshot(0)
    /\ UNCHANGED << page_num, runInfo >>

EmptyPagesAfter_noreset(found, count) == IF found = 0 THEN count + 1 ELSE count

EmptyPagesAfter(found, count) == IF found = 0 THEN count + 1 ELSE 0

NextPage_skip(n) == n + 2

NextPage(n) == n + 1

(* All rows of the page are done, or the row loop was left by break *)
PageDone ==
    \/ pc = "break"
    \/ pc = "row" /\ idx >= Len(Rows)

EmptyStop ==
    /\ links_found_on_page = 0
    /\ EmptyPagesAfter(links_found_on_page, consecutive_empty_pages) >= EmptyPageLimit

PageEnd ==
    /\ PageDone
    /\ consecutive_empty_pages' =
          EmptyPagesAfter(links_found_on_page, consecutive_empty_pages)
    /\ IF EmptyStop
       THEN Stop("empty_pages")
       ELSE IF NextButton = "absent" THEN Stop("no_next_button")
       ELSE IF NextButton = "disabled" THEN Stop("last_page")
       ELSE /\ page_num' = NextPage(page_num)
            /\ pc' = "page"
            /\ runInfo' = [runInfo EXCEPT !.navs = @ + 1]
            /\ UNCHANGED << stopReason, progress >>
    /\ UNCHANGED << queryVars, envVars, storeVars, failFile, counterVars, links_found_on_page,
                    new_downloads_on_page, idx, consecutive_skipped, law_name,
                    pdf_filename, detailVars, dlVars, rowInfo, log >>

(* The click on the next control raises: the outer handler re-raises, the run *)
(* ends without its final update_progress                                    *)
NavError ==
    /\ PageDone
    /\ ~EmptyStop
    /\ NextButton = "enabled"
    /\ consecutive_empty_pages' =
          EmptyPagesAfter(links_found_on_page, consecutive_empty_pages)
    /\ runInfo' = [runInfo EXCEPT !.navs = @ + 1]
    /\ pc' = "raised"
    /\ stopReason' = "error"
    /\ UNCHANGED << queryVars, envVars, storeVars, failFile, progress, counterVars, page_num,
                    links_found_on_page, new_downloads_on_page, idx, consecutive_skipped,
                    law_name, pdf_filename, detailVars, dlVars, rowInfo, log >>

----------------------------------------------------------------------------
(* scrape_india_code: the detail page and its candidate links *)

AllFailedReason_nocount(n) == "All PDF links returned 404"

AllFailedReason(n) == "All " \o ToString(n) \o " PDF links returned 404"

RecordsDetailError_always(n) == TRUE

(* if detail_attempt == 1: save_failed_law(...) *)
RecordsDetailError(n) == n = DetailAttempts - 1

(* except Exception / finally of one detail attempt *)
DetailExcept ==
    /\ failFile' = IF RecordsDetailError(detail_attempt)
                   THEN save_failed_law(failFile, law_name, "Detail page error")
                   ELSE failFile
    /\ detail_attempt' = detail_attempt + 1
    /\ pc' = IF detail_attempt + 1 < DetailAttempts THEN "detail" ELSE "rowEnd"

DetailError ==
    /\ pc = "detail"
    /\ DetailExcept
    /\ UNCHANGED << queryVars, envVars, storeVars, progress, counterVars, pageVars, idx,
                    consecutive_skipped, law_name, pdf_filename, pdf_downloaded,
                    pdf_links, pdf_idx, dlVars, rowInfo, log, stopReason, runInfo >>

AfterRowError_abort == "raised"

(* except Exception as e: print; continue, around the whole handling of a row *)
AfterRowError == "rowEnd"

(* context.new_page() raises: it is called before the try of the detail attempt, *)
(* so the exception reaches the handler of the row                             *)
RowException ==
    /\ pc = "detail"
    /\ pc' = AfterRowError
    /\ rowInfo' = [rowInfo EXCEPT !.exc = TRUE]
    /\ UNCHANGED << queryVars, envVars, storeVars, failFile, progress, counterVars, pageVars,
                    idx, consecutive_skipped, law_name, pdf_filename, detailVars, dlVars,
                    log, stopReason, runInfo >>

DetailLinks ==
    /\ pc = "detail"
    /\ \E n \in 1..MaxLinks : pdf_links' = n
    /\ pdf_idx' = 0
    /\ pc' = "link"
    /\ rowInfo' = [rowInfo EXCEPT !.tried = << >>]
    /\ UNCHANGED << queryVars, envVars, storeVars, failFile, progress, counterVars, pageVars, idx,
                    consecutive_skipped, law_name, pdf_filename, pdf_downloaded,
                    detail_attempt, dlVars, log, stopReason, runInfo >>

DetailNoLinks ==
    /\ pc = "detail"
    /\ \E found_alt \in BOOLEAN :
          failFile' = IF found_alt THEN failFile
                      ELSE save_failed_law(failFile, law_name, "No PDF links found")
    /\ pdf_links' = 0
    /\ pc' = "rowEnd"
    /\ UNCHANGED << queryVars, envVars, storeVars, progress, counterVars, pageVars, idx,
                    consecutive_skipped, law_name, pdf_filename, pdf_downloaded,
                    detail_attempt, pdf_idx, dlVars, rowInfo, log, stopReason, runInfo >>

AtLink ==
    /\ pc = "link"
    /\ pdf_idx < pdf_links

LinkError ==
    /\ AtLink
    /\ DetailExcept
    /\ UNCHANGED << queryVars, envVars, storeVars, progress, counterVars, pageVars, idx,
                    consecutive_skipped, law_name, pdf_filename, pdf_downloaded,
                    pdf_links, pdf_idx, dlVars, rowInfo, log, stopReason, runInfo >>

LinkNoHref ==
    /\ AtLink
    /\ pdf_idx' = pdf_idx + 1
    /\ UNCHANGED << queryVars, envVars, storeVars, failFile, progress, counterVars, pageVars, idx,
                    consecutive_skipped, law_name, pdf_filename, pdf_downloaded,
                    detail_attempt, pdf_links, pc, dlVars, rowInfo, log, stopReason,
                    runInfo >>

LinkHref ==
    /\ AtLink
    /\ pc' = "download"
    /\ rowInfo' = [rowInfo EXCEPT !.tried = Append(@, pdf_idx + 1)]
    /\ UNCHANGED << queryVars, envVars, storeVars, failFile, progress, counterVars, pageVars, idx,
                    consecutive_skipped, law_name, pdf_filename, detailVars, dlVars, log,
                    stopReason, runInfo >>

AllLinksFailed ==
    /\ pc = "link"
    /\ pdf_idx >= pdf_links
    /\ failFile' = save_failed_law(failFile, law_name, AllFailedReason(pdf_links))
    /\ pc' = "rowEnd"
    /\ UNCHANGED << queryVars, envVars, storeVars, progress, counterVars, pageVars, idx,
                    consecutive_skipped, law_name, pdf_filename, detailVars, dlVars,
                    rowInfo, log, stopReason, runInfo >>

----------------------------------------------------------------------------
(* download_pdf *)

MinPdfLen == 100

(* What a GET can bring: a status, or no response in time.  The two except    *)
(* clauses of the retry loop do the same, "timeout" stands for both.  A 200   *)
(* response carries a payload: its length, and whether %PDF is in it.         *)
Statuses == {"200", "404", "500", "timeout"}

Payloads == [len : {MinPdfLen, MinPdfLen + 1}, magic : BOOLEAN]

IsPdf(payload) == payload.len > MinPdfLen /\ payload.magic

ContentKind(payload) == IF IsPdf(payload) THEN "pdf" ELSE "junk"

(* law_crawler checks the payload, repealed_crawler_final writes whatever came *)
Accepts(payload) == IsLawCrawler => IsPdf(payload)

DownloadBegin_refetch ==
    /\ pc = "download"
    /\ httpLog' = << >>
    /\ sleeps' = 0
    /\ rowInfo' = [rowInfo EXCEPT !.local0 = local[pdf_filename]]
    /\ attempt' = 0
    /\ pc' = "http"
    /\ UNCHANGED << queryVars, envVars, storeVars, failFile, progress, counterVars,
                    pageVars, idx, consecutive_skipped, law_name, pdf_filename,
                    detailVars, dlResult, log, stopReason, runInfo >>

DownloadBegin ==
    /\ pc = "download"
    /\ httpLog' = << >>
    /\ sleeps' = 0
    /\ rowInfo' = [rowInfo EXCEPT !.local0 = local[pdf_filename]]
    /\ IF local[pdf_filename] # "absent"
       THEN /\ dlResult' = TRUE
            /\ pc' = "dlret"
            /\ UNCHANGED attempt
       ELSE /\ attempt' = 0
            /\ pc' = "http"
            /\ UNCHANGED dlResult
    /\ UNCHANGED << queryVars, envVars, storeVars, failFile, progress, counterVars, pageVars, idx,
                    consecutive_skipped, law_name, pdf_filename, detailVars, log,
                    stopReason, runInfo >>

Return(result) ==
    /\ dlResult' = result
    /\ pc' = "dlret"
    /\ UNCHANGED << attempt, sleeps >>

Retry_sleep_always ==
    /\ sleeps' = sleeps + 1
    /\ IF attempt + 1 < MaxAttempts
       THEN /\ attempt' = attempt + 1
            /\ pc' = "http"
            /\ UNCHANGED dlResult
       ELSE /\ dlResult' = FALSE
            /\ pc' = "dlret"
            /\ UNCHANGED attempt

Retry ==
    /\ sleeps' = IF attempt < LastSleepAttempt THEN sleeps + 1 ELSE sleeps
    /\ IF attempt + 1 < MaxAttempts
       THEN /\ attempt' = attempt + 1
            /\ pc' = "http"
            /\ UNCHANGED dlResult
       ELSE /\ dlResult' = FALSE
            /\ pc' = "dlret"
            /\ UNCHANGED attempt

HttpOk ==
    /\ pc = "http"
    /\ \E payload \in Payloads :
          /\ httpLog' = Append(httpLog, [status |-> "200", kind |-> ContentKind(payload)])
          /\ IF Accepts(payload)
             THEN /\ local' = [local EXCEPT ![pdf_filename] = ContentKind(payload)]
                  /\ Return(TRUE)
             ELSE /\ UNCHANGED local
                  /\ Return(FALSE)
    /\ UNCHANGED << queryVars, envVars, processed_files, histFile, remote, failFile, progress,
                    counterVars, pageVars, idx, consecutive_skipped, law_name,
                    pdf_filename, detailVars, rowInfo, log, stopReason, runInfo >>

HttpNotFound ==
    /\ pc = "http"
    /\ httpLog' = Append(httpLog, [status |-> "404", kind |-> "none"])
    /\ Return(FALSE)
    /\ UNCHANGED << queryVars, envVars, storeVars, failFile, progress, counterVars, pageVars, idx,
                    consecutive_skipped, law_name, pdf_filename, detailVars, rowInfo, log,
                    stopReason, runInfo >>

HttpTransient ==
    /\ pc = "http"
    /\ \E st \in {"500", "timeout"} :
          httpLog' = Append(httpLog, [status |-> st, kind |-> "none"])
    /\ Retry
    /\ UNCHANGED << queryVars, envVars, storeVars, failFile, progress, counterVars, pageVars, idx,
                    consecutive_skipped, law_name, pdf_filename, detailVars, rowInfo, log,
                    stopReason, runInfo >>

(* Back in the candidate loop of scrape_india_code *)
AfterDownload_remove == "remove"

(* if await download_pdf(...): the upload comes before os.remove *)
AfterDownload == "upload"

DownloadReturn ==
    /\ pc = "dlret"
    /\ IF dlResult
       THEN /\ pc' = AfterDownload
            /\ rowInfo' = [rowInfo EXCEPT !.dl = "ok"]
            /\ UNCHANGED pdf_idx
       ELSE /\ pc' = "link"
            /\ pdf_idx' = pdf_idx + 1
            /\ UNCHANGED rowInfo
    /\ httpLog' = << >>
    /\ sleeps' = 0
    /\ attempt' = 0
    /\ UNCHANGED << queryVars, envVars, storeVars, failFile, progress, counterVars, pageVars, idx,
                    consecutive_skipped, law_name, pdf_filename, pdf_downloaded,
                    detail_attempt, pdf_links, dlResult, log, stopReason, runInfo >>

----------------------------------------------------------------------------
(* scrape_india_code: upload, cleanup and the history *)

UploadOk ==
    /\ pc = "upload"
    /\ remote' = [remote EXCEPT ![pdf_filename] = local[pdf_filename]]
    /\ rowInfo' = [rowInfo EXCEPT !.up = "ok"]
    /\ runInfo' = [runInfo EXCEPT !.uploaded = @ \cup {pdf_filename}]
    /\ pc' = "remove"
    /\ UNCHANGED << queryVars, envVars, processed_files, histFile, local, failFile, progress,
                    counterVars, pageVars, idx, consecutive_skipped, law_name,
                    pdf_filename, detailVars, dlVars, log, stopReason >>

AfterUploadFailure_record == "remove"

AfterUploadFailure == "rowEnd"

UploadFail ==
    /\ pc = "upload"
    /\ rowInfo' = [rowInfo EXCEPT !.up = "fail"]
    /\ pdf_downloaded' = (AfterUploadFailure = "rowEnd")
    /\ pc' = AfterUploadFailure
    /\ UNCHANGED << queryVars, envVars, storeVars, failFile, progress, counterVars, pageVars, idx,
                    consecutive_skipped, law_name, pdf_filename, detail_attempt, pdf_links,
                    pdf_idx, dlVars, log, stopReason, runInfo >>

RemoveOk ==
    /\ pc = "remove"
    /\ local' = [local EXCEPT ![pdf_filename] = "absent"]
    /\ rowInfo' = [rowInfo EXCEPT !.rm = "ok"]
    /\ pc' = "record"
    /\ UNCHANGED << queryVars, envVars, processed_files, histFile, remote, failFile, progress,
                    counterVars, pageVars, idx, consecutive_skipped, law_name,
                    pdf_filename, detailVars, dlVars, log, stopReason, runInfo >>

RemoveOSError ==
    /\ pc = "remove"
    /\ rowInfo' = [rowInfo EXCEPT !.rm = "oserror"]
    /\ pdf_downloaded' = TRUE
    /\ pc' = "rowEnd"
    /\ UNCHANGED << queryVars, envVars, storeVars, failFile, progress, counterVars, pageVars, idx,
                    consecutive_skipped, law_name, pdf_filename, detail_attempt, pdf_links,
                    pdf_idx, dlVars, log, stopReason, runInfo >>

processed_files_add_forgotten(history, id) == history

(* processed_files.add(pdf_filename) *)
processed_files_add(history, id) == history \cup {id}

(* processed_files.add, save_processed_law (which swallows a failed write), *)
(* the counters and update_progress                                         *)
Record ==
    /\ pc = "record"
    /\ processed_files' = processed_files_add(processed_files, pdf_filename)
    /\ \E written \in BOOLEAN :
          /\ histFile' = IF written THEN save_processed_law(histFile, pdf_filename)
                         ELSE histFile
          /\ runInfo' = [runInfo EXCEPT !.appended =
                                           IF written THEN @ \cup {pdf_filename} ELSE @]
    /\ total_downloaded' = total_downloaded + 1
    /\ new_downloads_on_page' = new_downloads_on_page + 1
    /\ progress' = update_progress(total_laws_count,
                                   Cardinality(processed_files') + total_downloaded',
                                   page_num, idx, skipped_repealed)
    /\ pdf_downloaded' = TRUE
    /\ pc' = "rowEnd"
    /\ UNCHANGED << queryVars, envVars, local, remote, failFile, skipped_repealed,
                    skipped_already_downloaded, skipped_failed, page_num,
                    links_found_on_page, consecutive_empty_pages, idx,
                    consecutive_skipped, law_name, pdf_filename, detail_attempt, pdf_links,
                    pdf_idx, dlVars, rowInfo, log, stopReason >>

----------------------------------------------------------------------------
(* The crawl *)

CrawlNext ==
    \/ Reconcile
    \/ PageBegin
    \/ RowNoLink
    \/ RowAlreadyDownloaded
    \/ RowRepealed
    \/ RowPreviouslyFailed
    \/ RowNoHref
    \/ RowFetch
    \/ RowEnd
    \/ PageEnd
    \/ NavError
    \/ DetailError
    \/ RowException
    \/ DetailLinks
    \/ DetailNoLinks
    \/ LinkError
    \/ LinkNoHref
    \/ LinkHref
    \/ AllLinksFailed
    \/ DownloadBegin
    \/ HttpOk
    \/ HttpNotFound
    \/ HttpTransient
    \/ DownloadReturn
    \/ UploadOk
    \/ UploadFail
    \/ RemoveOk
    \/ RemoveOSError
    \/ Record

Next == CrawlNext

Spec == Init /\ [][Next]_vars

----------------------------------------------------------------------------
(* Several runs of the crawler, one after the other, over the same files *)

RunCatalogs ==
    {[pages |-> << p >>, lastNext |-> "disabled"] :
        p \in {<< R(OldAct), R(RepAct), R(NewAct) >>,
               << R(NewAct), R(OldAct) >>,
               << NoHrefRow(NewAct), R(NewAct), NoLinkRow >>,
               << R(PipeAct) >>}}
        \cup {[pages |-> << << R(NewAct) >>, << NoLinkRow >> >>, lastNext |-> "absent"]}

(* What a new process does before its page loop: the loads, the counters *)
Startup ==
    /\ repealed_names' = load_repealed_laws(repealed_file)
    /\ processed_files' = load_processed_laws(histFile)
    /\ failed_laws' = IF IsLawCrawler THEN {} ELSE load_failed_laws(failFile)
    /\ pc' = StartPc
    /\ page_num' = 1
    /\ idx' = 0
    /\ links_found_on_page' = 0
    /\ new_downloads_on_page' = 0
    /\ total_downloaded' = 0
    /\ skipped_repealed' = 0
    /\ skipped_already_downloaded' = 0
    /\ skipped_failed' = 0
    /\ consecutive_empty_pages' = 0
    /\ consecutive_skipped' = 0
    /\ law_name' = << >>
    /\ pdf_filename' = << >>
    /\ pdf_downloaded' = FALSE
    /\ detail_attempt' = 0
    /\ pdf_links' = 0
    /\ pdf_idx' = 0
    /\ attempt' = 0
    /\ dlResult' = FALSE
    /\ httpLog' = << >>
    /\ sleeps' = 0
    /\ rowInfo' = NoRowInfo
    /\ log' = << >>
    /\ stopReason' = "running"
    /\ UNCHANGED << queryVars, variant, catalog, repealed_file, histFile, failFile,
                    progress, local, remote >>

(* The crawler has returned and is started again *)
Restart ==
    /\ pc \in {"done", "raised"}
    /\ runInfo.run < MaxRuns
    /\ Startup
    /\ runInfo' = [runInfo EXCEPT !.hist0 = processed_files',
                                  !.run = @ + 1,
                                  !.out = << >>,
                                  !.prevOut = runInfo.out,
                                  !.prevHist = processed_files,
                                  !.prevHistFile = histFile,
                                  !.failFile0 = failFile,
                                  !.scanned = << >>,
                                  !.navs = 0]

(* The positions of scrape_india_code inside the handling of one row *)
PipelinePcs ==
    {"detail", "link", "download", "http", "dlret", "upload", "remove", "record", "rowEnd"}

(* The row being handled, or the row about to be *)
InFlight ==
    IF pc \in PipelinePcs THEN {law_name}
    ELSE IF pc = "row" /\ idx < Len(Rows) /\ CurRow.link THEN {CurRow.name}
    ELSE {}

(* The process dies while a row is handled and is started again: what is in *)
(* memory is gone, the files, the local directory and the bucket stay       *)
Crash ==
    /\ pc \in PipelinePcs \/ (pc = "row" /\ idx < Len(Rows))
    /\ runInfo.run < MaxRuns
    /\ Startup
    /\ runInfo' = [runInfo EXCEPT !.hist0 = processed_files',
                                  !.run = @ + 1,
                                  !.out = << >>,
                                  !.scanned = << >>,
                                  !.navs = 0,
                                  !.crashed = TRUE,
                                  !.failFile0 = failFile,
                                  !.inflight = InFlight,
                                  !.lostHist = runInfo.hist0,
                                  !.lostUploaded = runInfo.uploaded,
                                  !.lostAppended = runInfo.appended]

RunsInit == CrawlStart(RunCatalogs, MaxFetchRows) /\ QueryIdle

RunsNext == CrawlNext \/ Restart \/ Crash

SpecRuns == RunsInit /\ [][RunsNext]_vars

----------------------------------------------------------------------------
(* One session of the script: the run mode, the refresh of the registry, the *)
(* startup of scrape_india_code, its page loop and its outer handlers        *)

(* --repealed-only, --crawler-only, neither; law_crawler.py takes no flag *)
Modes == IF IsLawCrawler THEN {"none"} ELSE {"full", "crawler_only", "repealed_only"}

RunsCrawler_always(mode) == TRUE

(* scrape_india_code is called unless --repealed-only was given *)
RunsCrawler(mode) == mode # "repealed_only"

(* scrape_repealed_laws is called with --repealed-only and in the full pipeline *)
RunsRefresh(mode) == mode \in {"full", "repealed_only"}

WritesRegistry_always(names) == TRUE

(* if laws: the two JSON files are written *)
WritesRegistry(names) == names # << >>

(* extract_names_only, json.dump, and what load_repealed_laws reads back *)
NamesOf(names) == {names[i] : i \in 1..Len(names)}

(* What the refresh can return: every page, the pages before an error, nothing *)
RefreshResults == {<< >>, << RepEntry >>, << RepEntry, NewAct >>}

Main ==
    /\ pc = "main"
    /\ pc' = IF RunsRefresh(args) THEN "refresh" ELSE "load"
    /\ UNCHANGED << queryVars, variant, catalog, repealed_file, repealed_names,
                    storeVars, failFile, progress, counterVars,
                    pageVars, detailVars, dlVars, failed_laws, idx, consecutive_skipped,
                    law_name, pdf_filename, rowInfo, log, stopReason, runInfo >>

AfterRefresh == IF RunsCrawler(args) THEN "load" ELSE "exit"

(* scrape_repealed_laws: its own handler swallows every error and returns *)
(* what was gathered so far                                              *)
ScrapeRepealed ==
    /\ pc = "refresh"
    /\ laws' \in RefreshResults
    /\ pc' = "save"
    /\ UNCHANGED << q_name, q_reg, q_res, sanitizeVars, args, browser, search_attempt, diagnostics, variant, catalog,
                    repealed_file, repealed_names, storeVars, failFile, progress, counterVars,
                    pageVars, detailVars, dlVars, failed_laws, idx, consecutive_skipped,
                    law_name, pdf_filename, rowInfo, log, stopReason,
                    runInfo >>

SaveRegistry ==
    /\ pc = "save"
    /\ WritesRegistry(laws)
    /\ repealed_file' = RegistryFile(NamesOf(laws))
    /\ pc' = AfterRefresh
    /\ UNCHANGED << queryVars, variant, catalog, repealed_names, storeVars, failFile, progress, counterVars,
                    pageVars, detailVars, dlVars, failed_laws, idx, consecutive_skipped,
                    law_name, pdf_filename, rowInfo, log, stopReason, runInfo >>

SaveNothing ==
    /\ pc = "save"
    /\ ~WritesRegistry(laws)
    /\ pc' = AfterRefresh
    /\ UNCHANGED << queryVars, variant, catalog, repealed_file, repealed_names,
                    storeVars, failFile, progress, counterVars,
                    pageVars, detailVars, dlVars, failed_laws, idx, consecutive_skipped,
                    law_name, pdf_filename, rowInfo, log, stopReason, runInfo >>

(* open(..., "w") or json.dump raises: nothing catches it, the script ends; the *)
(* names file is untouched or was truncated                                   *)
SaveError ==
    /\ pc = "save"
    /\ WritesRegistry(laws)
    /\ repealed_file' \in {repealed_file, BrokenRegistryFile}
    /\ pc' = "propagated"
    /\ stopReason' = "save_error"
    /\ UNCHANGED << queryVars, variant, catalog, repealed_names, storeVars, failFile, progress, counterVars,
                    pageVars, detailVars, dlVars, failed_laws, idx, consecutive_skipped,
                    law_name, pdf_filename, rowInfo, log, runInfo >>

(* scrape_india_code begins: the three loads *)
Load ==
    /\ pc = "load"
    /\ Startup
    /\ runInfo' = [runInfo EXCEPT !.hist0 = processed_files', !.failFile0 = failFile]

Launch ==
    /\ pc = "launch"
    /\ browser' = "open"
    /\ search_attempt' = 1
    /\ pc' = "search"
    /\ UNCHANGED << q_name, q_reg, q_res, sanitizeVars, args, laws, diagnostics, variant, catalog, repealed_file,
                    repealed_names, storeVars, failFile, progress, counterVars,
                    pageVars, detailVars, dlVars, failed_laws, idx, consecutive_skipped,
                    law_name, pdf_filename, rowInfo, log, stopReason, runInfo >>

(* The search button was clicked: search_success = True, break *)
SearchOk ==
    /\ pc = "search"
    /\ pc' = "table"
    /\ UNCHANGED << queryVars, variant, catalog, repealed_file, repealed_names,
                    storeVars, failFile, progress, counterVars,
                    pageVars, detailVars, dlVars, failed_laws, idx, consecutive_skipped,
                    law_name, pdf_filename, rowInfo, log, stopReason, runInfo >>

SearchGivesUp_late(n) == n > max_retries

(* if attempt < max_retries: sleep and go on; else the run is over *)
SearchGivesUp(n) == n >= max_retries

(* The attempt raised, the search input was not found, or no button could be *)
(* clicked: the next attempt, or after the last one the exception            *)
SearchFail ==
    /\ pc = "search"
    /\ IF SearchGivesUp(search_attempt)
       THEN /\ pc' = "raised"
            /\ stopReason' = "error"
            /\ UNCHANGED search_attempt
       ELSE /\ search_attempt' = search_attempt + 1
            /\ UNCHANGED << pc, stopReason >>
    /\ UNCHANGED << q_name, q_reg, q_res, sanitizeVars, args, laws, browser, diagnostics, variant, catalog,
                    repealed_file, repealed_names, storeVars, failFile, progress, counterVars,
                    pageVars, detailVars, dlVars, failed_laws, idx, consecutive_skipped,
                    law_name, pdf_filename, rowInfo, log, runInfo >>

TableFound ==
    /\ pc = "table"
    /\ pc' = "page"
    /\ UNCHANGED << queryVars, variant, catalog, repealed_file, repealed_names,
                    storeVars, failFile, progress, counterVars,
                    pageVars, detailVars, dlVars, failed_laws, idx, consecutive_skipped,
                    law_name, pdf_filename, rowInfo, log, stopReason, runInfo >>

(* None of the table selectors became visible: raise Exception("Table not found") *)
TableNotFound ==
    /\ pc = "table"
    /\ pc' = "raised"
    /\ stopReason' = "error"
    /\ UNCHANGED << queryVars, variant, catalog, repealed_file, repealed_names,
                    storeVars, failFile, progress, counterVars,
                    pageVars, detailVars, dlVars, failed_laws, idx, consecutive_skipped,
                    law_name, pdf_filename, rowInfo, log, runInfo >>

(* The rows of the listing do not appear in time.  law_crawler lets the       *)
(* TimeoutError of wait_for_selector go up; repealed_crawler_final catches it *)
(* for each selector and goes on with rows = []                              *)
RowsTimeout ==
    /\ pc = "page"
    /\ runInfo' = [runInfo EXCEPT !.norows = TRUE,
                                  !.scanned = IF IsLawCrawler THEN @ ELSE Append(@, page_num)]
    /\ IF IsLawCrawler
       THEN /\ pc' = "raised"
            /\ stopReason' = "error"
            /\ UNCHANGED << idx, links_found_on_page, new_downloads_on_page >>
       ELSE /\ pc' = "row"
            /\ idx' = Len(Rows)
            /\ links_found_on_page' = 0
            /\ new_downloads_on_page' = 0
            /\ UNCHANGED stopReason
    /\ UNCHANGED << queryVars, envVars, storeVars, failFile, progress, counterVars, page_num,
                    consecutive_empty_pages, consecutive_skipped, law_name, pdf_filename,
                    detailVars, dlVars, rowInfo, log >>

(* except Exception as e: the screenshot and the page content are tried, each *)
(* in its own try, then raise                                                *)
OuterExcept ==
    /\ pc = "raised"
    /\ diagnostics' \in {"captured", "failed"}
    /\ pc' = "finally"
    /\ UNCHANGED << q_name, q_reg, q_res, sanitizeVars, args, laws, browser, search_attempt, variant, catalog,
                    repealed_file, repealed_names, storeVars, failFile, progress, counterVars,
                    pageVars, detailVars, dlVars, failed_laws, idx, consecutive_skipped,
                    law_name, pdf_filename, rowInfo, log, stopReason,
                    runInfo >>

(* finally: await browser.close(), after the normal return and after the raise *)
Finally ==
    /\ pc \in {"done", "finally"}
    /\ browser' = "closed"
    /\ pc' = IF pc = "done" THEN "exit" ELSE "propagated"
    /\ UNCHANGED << q_name, q_reg, q_res, sanitizeVars, args, laws, search_attempt, diagnostics, variant, catalog,
                    repealed_file, repealed_names, storeVars, failFile, progress, counterVars,
                    pageVars, detailVars, dlVars, failed_laws, idx, consecutive_skipped,
                    law_name, pdf_filename, rowInfo, log, stopReason,
                    runInfo >>

SessionCatalogs ==
    {[pages |-> << p >>, lastNext |-> "disabled"] :
        p \in {<< R(RepAct), R(NewAct) >>,
               << R(NewAct), R(OldAct) >>,
               << NoHrefRow(NewAct), NoLinkRow >>}}
        \cup {[pages |-> << << R(NewAct) >>, << NoLinkRow >> >>, lastNext |-> "absent"]}

SessionInit ==
    /\ StartState(SessionCatalogs, MaxFetchRows)
    /\ QueryIdle
    /\ local = [id \in AllIds |-> "absent"]
    /\ args \in Modes
    /\ laws = << >>
    /\ browser = "none"
    /\ search_attempt = 0
    /\ diagnostics = "none"
    /\ pc = "main"

SessionNext ==
    \/ Main
    \/ ScrapeRepealed
    \/ SaveRegistry
    \/ SaveNothing
    \/ SaveError
    \/ Load
    \/ Launch
    \/ SearchOk
    \/ SearchFail
    \/ TableFound
    \/ TableNotFound
    \/ RowsTimeout
    \/ OuterExcept
    \/ Finally
    \/ CrawlNext

(* The script is one sequential process: a step that can be taken is taken *)
SpecSession == SessionInit /\ [][SessionNext]_vars /\ WF_vars(SessionNext)

----------------------------------------------------------------------------
(* Direct calls of is_repealed *)

Alphabet == {"a", "A", " ", ",", "("}

Strings(n) == UNION {[1..k -> Alphabet] : k \in 0..n}

FactoriesAct ==
    << "F", "a", "c", "t", "o", "r", "i", "e", "s", " ", "A", "c", "t" >>
FactoriesAct1948 == FactoriesAct \o << ",", " ", "1", "9", "4", "8" >>
FactoriesActII == FactoriesAct \o << " ", "I", "I" >>
FactoriesActs == FactoriesAct \o << "s" >>
IndianAct == << "I", "n", "d", "i", "a", "n", " ", "A", "c", "t" >>
IndianActsAmendment ==
    IndianAct \o << "s", " ", "A", "m", "e", "n", "d", "m", "e", "n", "t" >>

ExampleNames == {FactoriesAct, IndianAct, << " ", "F", "a", "c", "t", "o", "r", "i", "e", "s", "\t", " ", "a", "c", "t" >>}

ExampleEntries == {FactoriesAct1948, FactoriesActII, FactoriesActs, IndianActsAmendment}

QueryNames == Strings(MaxNameLen) \cup ExampleNames

QueryRegistries ==
    {{}} \cup {{e} : e \in Strings(MaxEntryLen) \cup ExampleEntries}
         \cup {{e, f} : e \in ExampleEntries, f \in ExampleEntries}

CrawlIdle ==
    /\ variant = "law_crawler"
    /\ catalog = [pages |-> << >>, lastNext |-> "disabled"]
    /\ repealed_file = NoRegistryFile
    /\ repealed_names = {}
    /\ failed_laws = {}
    /\ processed_files = {}
    /\ histFile = << >>
    /\ failFile = << >>
    /\ progress = NoProgress
    /\ local = [id \in AllIds |-> "absent"]
    /\ remote = [id \in AllIds |-> "absent"]
    /\ pc = "idle"
    /\ DirectCall
    /\ page_num = 1
    /\ idx = 0
    /\ links_found_on_page = 0
    /\ new_downloads_on_page = 0
    /\ total_downloaded = 0
    /\ skipped_repealed = 0
    /\ skipped_already_downloaded = 0
    /\ skipped_failed = 0
    /\ consecutive_empty_pages = 0
    /\ consecutive_skipped = 0
    /\ law_name = << >>
    /\ pdf_filename = << >>
    /\ pdf_downloaded = FALSE
    /\ detail_attempt = 0
    /\ pdf_links = 0
    /\ pdf_idx = 0
    /\ attempt = 0
    /\ dlResult = FALSE
    /\ httpLog = << >>
    /\ sleeps = 0
    /\ rowInfo = NoRowInfo
    /\ log = << >>
    /\ stopReason = "running"
    /\ runInfo = NoRunInfo

QueryInit ==
    /\ CrawlIdle
    /\ SanitizeIdle
    /\ q_name \in QueryNames
    /\ q_reg \in QueryRegistries
    /\ q_res = "pending"

QueryCall ==
    /\ q_res = "pending"
    /\ q_res' = IF is_repealed(q_name, q_reg) THEN "True" ELSE "False"
    /\ UNCHANGED << crawlVars, q_name, q_reg, sanitizeVars, sessionVars >>

QueryNext == QueryCall

SpecQuery == QueryInit /\ [][QueryNext]_vars

----------------------------------------------------------------------------
(* Direct calls of sanitize_filename *)

TitleAlphabet == ForbiddenChars \cup {"a", "_", " ", ".", "\n"}

Titles(n) == UNION {[1..k -> TitleAlphabet] : k \in 0..n}

(* Display names around the length limit, with and without a character to replace *)
LongTitles ==
    {Run(k, "a") \o tail : k \in (MaxFilenameLen - 6)..(MaxFilenameLen + 1),
                           tail \in {<< >>, << "/" >>, << ":", "a" >>}}

SanitizeNames == Titles(MaxTitleLen) \cup LongTitles

SanitizeInit ==
    /\ CrawlIdle
    /\ q_name = << >>
    /\ q_reg = {}
    /\ q_res = "idle"
    /\ s_name \in SanitizeNames
    /\ s_ids = << >>

SanitizeCall ==
    /\ Len(s_ids) < MaxCalls
    /\ s_ids' = Append(s_ids, sanitize_filename(s_name \o PdfSuffix))
    /\ UNCHANGED << crawlVars, q_name, q_reg, q_res, s_name, sessionVars >>

SanitizeNext == SanitizeCall

SpecSanitize == SanitizeInit /\ [][SanitizeNext]_vars

----------------------------------------------------------------------------
(* Properties *)

RowFinished == pc = "rowEnd" /\ rowInfo.fetch

InHistoryFile(id) == id \in load_processed_laws(histFile)

\* C1: when a fetched row whose download succeeded finishes, a failed upload has
\* left the local file in place and the identifier out of the history set and
\* file, and a successful upload has left the local file absent and the
\* identifier in the history set and file, also when the delete raised OSError.
C1_UploadConsistency ==
    (RowFinished /\ rowInfo.dl = "ok") =>
        /\ rowInfo.up = "fail" =>
              /\ local[pdf_filename] # "absent"
              /\ pdf_filename \notin processed_files
              /\ ~InHistoryFile(pdf_filename)
        /\ rowInfo.up = "ok" =>
              /\ local[pdf_filename] = "absent"
              /\ pdf_filename \in processed_files
              /\ InHistoryFile(pdf_filename)

\* C2: every identifier that entered the history set or the history file during
\* the run did so after upload_to_s3 returned True for it.
C2_HistoryOnlyAfterUpload ==
    /\ (processed_files \ runInfo.hist0) \subseteq runInfo.uploaded
    /\ (load_processed_laws(histFile) \ runInfo.hist0) \subseteq runInfo.uploaded

C2_Witness ==
    /\ RowFinished
    /\ pdf_filename \in processed_files \ runInfo.hist0
    /\ InHistoryFile(pdf_filename)

(* entry, normalized, is name, normalized, followed by nothing or by a rest *)
(* that begins with a comma, a space or an opening parenthesis              *)
BoundaryMatch(name, entry) ==
    LET n == Normalize(name)
        e == Normalize(entry)
    IN  \E k \in 0..Len(e) :
            /\ e = n \o SubSeq(e, k + 1, Len(e))
            /\ k = Len(e) \/ e[k + 1] \in {",", " ", "("}

\* C3: is_repealed(name, registry) is True exactly when some entry, normalized,
\* starts with the normalized name and continues with nothing, a comma, a space
\* or an opening parenthesis; "Indian Act" is not matched by "Indian Acts
\* Amendment".
C3_BoundaryRule ==
    q_res # "pending" =>
        /\ (q_res = "True") <=> (\E e \in q_reg : BoundaryMatch(q_name, e))
        /\ (q_name = IndianAct /\ q_reg = {IndianActsAmendment}) => q_res = "False"

C3_Witness ==
    /\ q_name = IndianAct
    /\ q_reg = {IndianActsAmendment}
    /\ q_res = "False"

\* C4 as written: "Factories Act" is excluded by the entry "Factories Act, 1948"
\* and is not excluded by the entry "Factories Act II".
C4_AsWritten ==
    (q_res # "pending" /\ q_name = FactoriesAct) =>
        /\ q_reg = {FactoriesAct1948} => q_res = "True"
        /\ q_reg = {FactoriesActII} => q_res = "False"

(* entry, normalized, is name, normalized, followed by some more text *)
Continues(name, entry) ==
    /\ Len(Normalize(entry)) > Len(Normalize(name))
    /\ SubSeq(Normalize(entry), 1, Len(Normalize(name))) = Normalize(name)

NextChar(name, entry) == Normalize(entry)[Len(Normalize(name)) + 1]

\* C4 as amended: "Factories Act" is excluded by "Factories Act, 1948" and also
\* by "Factories Act II", and not by "Factories Acts"; a name is excluded by a
\* single entry that continues it after a space, a comma or an opening
\* parenthesis, and by no single entry that continues it with another character.
C4_SpaceIsABoundary ==
    q_res # "pending" =>
        /\ q_name = FactoriesAct =>
              /\ q_reg = {FactoriesAct1948} => q_res = "True"
              /\ q_reg = {FactoriesActII} => q_res = "True"
              /\ q_reg = {FactoriesActs} => q_res = "False"
        /\ \A e \in q_reg :
              Continues(q_name, e) =>
                  /\ NextChar(q_name, e) \in {" ", ",", "("} => q_res = "True"
                  /\ (q_reg = {e} /\ NextChar(q_name, e) \notin {" ", ",", "("})
                        => q_res = "False"

C4_Witness ==
    /\ q_name = FactoriesAct
    /\ q_reg = {FactoriesActII}
    /\ q_res = "True"

\* C5: a row with a link is checked against the history first, then the
\* registry, then the previously-failed set: it is fetched only if none of
\* them holds it, and a row whose identifier is in the history is skipped as
\* already downloaded, without counting as repealed, whatever the registry says.
C5_DecisionOrder ==
    [][ (pc = "row" /\ idx < Len(Rows) /\ CurRow.link) =>
            LET id == PdfName(CurRow.name)
                excluded == is_repealed(CurRow.name, repealed_names)
            IN  /\ pc' = "detail" =>
                      /\ id \notin processed_files
                      /\ ~excluded
                      /\ ~IsLawCrawler => CurRow.name \notin failed_laws
                /\ id \in processed_files =>
                      /\ skipped_already_downloaded' = skipped_already_downloaded + 1
                      /\ skipped_repealed' = skipped_repealed
                      /\ skipped_failed' = skipped_failed
                      /\ pc' # "detail"
                /\ (id \notin processed_files /\ excluded) =>
                      /\ skipped_repealed' = skipped_repealed + 1
                      /\ skipped_failed' = skipped_failed
                      /\ pc' # "detail"
      ]_vars

C5_Witness ==
    /\ log # << >>
    /\ log[Len(log)].decision = "already"
    /\ law_name = RepAct
    /\ is_repealed(law_name, repealed_names)
    /\ skipped_repealed = 0
    /\ skipped_already_downloaded > 0

(* Rows k+1 .. k+20 (counted from 1) of page p exist and were all ingested before the run *)
SkipRun(p, k) ==
    /\ k + SkipAheadThreshold <= Len(catalog.pages[p])
    /\ \A j \in (k + 1)..(k + SkipAheadThreshold) :
          /\ catalog.pages[p][j].link
          /\ PdfName(catalog.pages[p][j].name) \in runInfo.hist0

\* C6: in law_crawler, when the counter is 0 at the first of at least 20
\* consecutive already-ingested rows of a page, the scan of that page ends
\* with the 20th of them: no later row of the page is decided or fetched, the
\* progress snapshot never shows one, and all 20 are scanned.
C6_SkipAheadAfterTwenty ==
    IsLawCrawler =>
        \A i \in 1..Len(log) :
            (log[i].cs = 0 /\ SkipRun(log[i].page, log[i].row)) =>
                LET p == log[i].page
                    last == log[i].row + SkipAheadThreshold - 1
                IN  /\ \A j \in 1..Len(log) : log[j].page = p => log[j].row <= last
                    /\ progress.current_page = p => progress.current_row <= last
                    /\ page_num = p => idx <= last
                    /\ (page_num > p \/ pc \in {"break", "done"}) =>
                          \E j \in 1..Len(log) : log[j].page = p /\ log[j].row = last

C6_Witness ==
    /\ IsLawCrawler
    /\ pc = "break"
    /\ page_num = 1
    /\ idx = SkipAheadThreshold - 1
    /\ Len(Rows) >= SkipAheadThreshold + ExtraRows
    /\ log[1].cs = 0
    /\ SkipRun(1, 0)

Transient(resp) == resp.status \notin {"200", "404"}

\* C7: download_pdf without a local copy: a 404 as first response means one
\* attempt and failure; three attempts that all time out or bring a status other
\* than 200 and 404 mean failure after exactly 3 attempts and 2 sleeps, one
\* after each attempt but the last.
C7_RetryBudget ==
    /\ pc = "http" =>
          /\ Len(httpLog) < MaxAttempts
          /\ sleeps = Len(httpLog)
          /\ \A i \in 1..Len(httpLog) : Transient(httpLog[i])
    /\ (pc = "dlret" /\ rowInfo.local0 = "absent") =>
          /\ Len(httpLog) \in 1..MaxAttempts
          /\ httpLog[1].status = "404" => Len(httpLog) = 1 /\ ~dlResult
          /\ (\A i \in 1..Len(httpLog) : Transient(httpLog[i])) =>
                /\ Len(httpLog) = 3
                /\ sleeps = 2
                /\ ~dlResult

C7_Witness ==
    /\ pc = "dlret"
    /\ rowInfo.local0 = "absent"
    /\ Len(httpLog) = 3
    /\ \A i \in 1..3 : httpLog[i].status = "timeout"
    /\ sleeps = 2
    /\ ~dlResult

\* C8: in both crawlers download_pdf neither reports success for nor writes a
\* 200 payload that fails validation, so no such payload is ever uploaded.
C8_InvalidPayloadRejected ==
    /\ (pc = "dlret" /\ httpLog # << >> /\ httpLog[Len(httpLog)].kind = "junk") =>
          /\ ~dlResult
          /\ local[pdf_filename] = "absent"
    /\ \A id \in AllIds : remote[id] # "junk"

\* C9: download_pdf returns success without any HTTP attempt when the local
\* file exists, and leaves the file as it was.
C9_LocalCopyShortCircuit ==
    /\ pc = "http" => rowInfo.local0 = "absent"
    /\ (pc = "dlret" /\ rowInfo.local0 # "absent") =>
          /\ dlResult
          /\ httpLog = << >>
          /\ local[pdf_filename] = rowInfo.local0

C9_Witness ==
    /\ pc = "dlret"
    /\ rowInfo.local0 = "pdf"
    /\ dlResult
    /\ httpLog = << >>

SameOutcomes ==
    \A i \in 1..Len(runInfo.out) : \A j \in 1..Len(runInfo.prevOut) :
        runInfo.out[i].id = runInfo.prevOut[j].id =>
            /\ runInfo.out[i].dl = runInfo.prevOut[j].dl
            /\ runInfo.out[i].up = runInfo.prevOut[j].up

\* C11: a second run over the same catalog and registry, with the same download
\* and upload results for every row, counts no new download and ends with the
\* history set and the history file as the first run left them.
C11_SecondRunIdle ==
    (runInfo.run = 2 /\ pc = "done" /\ SameOutcomes) =>
        /\ total_downloaded = 0
        /\ processed_files = runInfo.prevHist
        /\ histFile = runInfo.prevHistFile

\* C12: the identifier of a display name is the same at every call, holds none
\* of the characters < > : " / \ | ? * and is at most 200 characters long; it
\* is the name with ".pdf" appended, each of those characters replaced by "_",
\* cut after 200 characters.
C12_IdentifierIsAFunction ==
    \A i \in 1..Len(s_ids) :
        LET id == s_ids[i]
            full == s_name \o PdfSuffix
        IN  /\ id = s_ids[1]
            /\ \A k \in 1..Len(id) : id[k] \notin ForbiddenChars
            /\ Len(id) <= MaxFilenameLen
            /\ Len(id) = IF Len(full) > MaxFilenameLen THEN MaxFilenameLen ELSE Len(full)
            /\ \A k \in 1..Len(id) :
                  id[k] = IF full[k] \in ForbiddenChars THEN "_" ELSE full[k]

C12_Witness ==
    /\ Len(s_ids) = MaxCalls
    /\ Len(s_name) > MaxFilenameLen
    /\ \E k \in 1..Len(s_name) : s_name[k] \in ForbiddenChars
    /\ Len(s_ids[1]) = MaxFilenameLen

(* The display name of the row a log entry is about *)
RowName(e) == catalog.pages[e.page][e.row + 1].name

\* C13: two rows of the catalog with different display names have different
\* identifiers, and a row is skipped as already ingested only for an identifier
\* that was in the history at startup or that an earlier row of the same name
\* was fetched under.
C13_NoCollision ==
    \A i \in 1..Len(log) :
        log[i].decision # "nolink" =>
            /\ \A j \in 1..Len(log) :
                  (log[j].decision # "nolink" /\ RowName(log[i]) # RowName(log[j]))
                      => PdfName(RowName(log[i])) # PdfName(RowName(log[j]))
            /\ log[i].decision = "already" =>
                  \/ PdfName(RowName(log[i])) \in runInfo.hist0
                  \/ \E j \in 1..(i - 1) :
                        /\ log[j].decision = "fetch"
                        /\ RowName(log[j]) = RowName(log[i])

(* How many rows of this run were decided that way *)
Decided(decision) == Cardinality({i \in 1..Len(log) : log[i].decision = decision})

\* C14: the progress snapshot counts, on top of the history found at startup,
\* one processed law for each row fetched, uploaded and recorded in this run,
\* and one skipped law for each row skipped as repealed.
C14_ProgressCounts ==
    progress.last_updated # "absent" =>
        /\ progress.processed_count = Cardinality(runInfo.hist0) + total_downloaded
        /\ progress.skipped_repealed = Decided("repealed")

(* Page p shows no row with a link *)
EmptyPage(p) == \A i \in 1..Len(catalog.pages[p]) : ~catalog.pages[p][i].link

(* The number of pages without a link that end with page p, one after the other *)
TrailingEmpty(p) ==
    Cardinality({k \in 1..p : \A j \in k..p : j <= Len(catalog.pages) /\ EmptyPage(j)})

\* C15: the counter of empty pages is the number of linkless pages scanned
\* since the last page with a link, so a page with a link sets it to 0; the
\* crawl stops at the tenth linkless page in a row and no page is scanned after
\* ten linkless pages in a row.
C15_EmptyPageStop ==
    /\ pc = "page" =>
          /\ consecutive_empty_pages = TrailingEmpty(page_num - 1)
          /\ consecutive_empty_pages < EmptyPageLimit
    /\ \A i \in 1..Len(runInfo.scanned) :
          TrailingEmpty(runInfo.scanned[i] - 1) < EmptyPageLimit
    /\ stopReason = "empty_pages" =>
          /\ pc = "done"
          /\ TrailingEmpty(page_num) = EmptyPageLimit
    /\ (pc \in {"done", "raised"} /\ TrailingEmpty(page_num) >= EmptyPageLimit) =>
          stopReason = "empty_pages"

C15_Witness ==
    /\ stopReason = "empty_pages"
    /\ page_num = EmptyPageLimit
    /\ Len(catalog.pages) > EmptyPageLimit
    /\ runInfo.scanned[Len(runInfo.scanned)] = EmptyPageLimit

\* C16: a run stopped by ten empty pages in a row does not end as a run that
\* reached the last page ends, by returning after the final progress update.
C16_EmptyStopIsDistinct ==
    stopReason = "empty_pages" => pc # "done"

\* C17: when the next control is disabled or absent at the end of a page the
\* crawl ends without asking for another page; each advance is one request and
\* raises the page number by one, so the pages scanned are 1, 2, 3, ... in
\* order, each once, up to the last page when that is what ended the run.
C17_PageAdvance ==
    /\ \A i \in 1..Len(runInfo.scanned) : runInfo.scanned[i] = i
    /\ Len(runInfo.scanned) = IF pc \in {"page", "reconcile"} THEN page_num - 1 ELSE page_num
    /\ runInfo.navs = IF pc = "raised" THEN page_num ELSE page_num - 1
    /\ stopReason \in {"last_page", "no_next_button"} =>
          /\ pc = "done"
          /\ NextButton \in {"disabled", "absent"}
          /\ page_num = Len(catalog.pages)
    /\ (pc = "done" /\ NextButton = "enabled") => stopReason = "empty_pages"

C17_Witness ==
    /\ pc = "done"
    /\ stopReason = "last_page"
    /\ page_num = 2
    /\ runInfo.scanned = << 1, 2 >>
    /\ runInfo.navs = 1

\* C18: once repealed_crawler_final has made its clean-up pass, each identifier
\* of the startup history whose name the registry lists has no remote object,
\* is in neither the history set nor the history file, and no row is skipped
\* as already ingested under it.
C18_ReconciliationPurges ==
    (~IsLawCrawler /\ pc \notin {"reconcile", "idle"}) =>
        \A id \in repealed_downloaded(runInfo.hist0) :
            /\ remote[id] = "absent"
            /\ id \notin processed_files
            /\ ~InHistoryFile(id)
            /\ \A i \in 1..Len(log) :
                  log[i].decision = "already" => PdfName(RowName(log[i])) # id

\* C19: without the registry file load_repealed_laws gives the empty registry,
\* is_repealed is False for every name, the crawl goes on and skips no row as
\* repealed.
C19_MissingRegistry ==
    (~repealed_file.exists /\ pc # "idle") =>
        /\ repealed_names = {}
        /\ \A n \in CrawlNames : ~is_repealed(n, repealed_names)
        /\ skipped_repealed = 0
        /\ Decided("repealed") = 0

C19_Witness ==
    /\ ~repealed_file.exists
    /\ pc = "done"
    /\ \E i \in 1..Len(log) : log[i].decision = "fetch" /\ RowName(log[i]) = RepAct
    /\ skipped_repealed = 0

\* C20: after a crash during the handling of a row and a restart, the history
\* loaded holds every identifier whose append was completed before the crash
\* and none that was not uploaded, and the new run fetches again no law that
\* was uploaded before the crash, except the row that was being handled.
C20_CrashLosesOneRow ==
    (runInfo.run = 2 /\ runInfo.crashed) =>
        /\ runInfo.lostAppended \subseteq runInfo.hist0
        /\ (runInfo.hist0 \ runInfo.lostHist) \subseteq runInfo.lostUploaded
        /\ \A i \in 1..Len(log) :
              (log[i].decision = "fetch"
                  /\ PdfName(RowName(log[i])) \in runInfo.lostUploaded)
                      => RowName(log[i]) \in runInfo.inflight

(* The decisions that count as a skip for the skip-ahead counter of law_crawler *)
SkipDecisions == {"already", "repealed"}

\* C21: in law_crawler, once a skip, of an already ingested row or of a
\* repealed row, has brought the counter of consecutive skips to 20, no later
\* row of that page is fetched.
C21_AbandonAtTwenty ==
    IsLawCrawler =>
        \A i \in 1..Len(log) : \A j \in 1..Len(log) :
            (/\ log[i].decision \in SkipDecisions
             /\ log[i].cs = SkipAheadThreshold - 1
             /\ log[j].page = log[i].page
             /\ log[j].row > log[i].row)
                => log[j].decision # "fetch"

\* C22: in law_crawler a page is left by skip-ahead only when the last 20 rows
\* scanned on that page were all skipped.
C22_TwentyOnTheSamePage ==
    (IsLawCrawler /\ pc = "break") =>
        /\ idx + 1 >= SkipAheadThreshold
        /\ \A r \in (idx + 1 - SkipAheadThreshold)..idx :
              \E i \in 1..Len(log) :
                  /\ log[i].page = page_num
                  /\ log[i].row = r
                  /\ log[i].decision \in SkipDecisions

\* C23: when a row with a link has been dealt with, whatever came of it, the
\* progress snapshot names that row's page and row index.
C23_SnapshotAfterEveryRow ==
    /\ pc = "rowEnd" =>
          /\ progress.current_page = page_num
          /\ progress.current_row = idx
    /\ (pc \in {"row", "break"} /\ log # << >> /\ log[Len(log)].page = page_num
            /\ log[Len(log)].decision \in {"already", "repealed", "failed"}) =>
          /\ progress.current_page = page_num
          /\ progress.current_row = log[Len(log)].row

(* The positions of scrape_india_code inside the scan of the rows of a page *)
RowScanPcs == PipelinePcs \cup {"row"}

\* C24: whatever happens to a row (no link, no href, detail page failing twice,
\* every candidate failing, upload failing, an exception raised while the row
\* is handled), the scan stays on the page and moves to the next row: the run
\* does not stop, the page is not left, and every earlier row of the page has
\* been scanned.  The only way out of a page before its last row is the
\* skip-ahead of law_crawler on an already ingested row.
C24_RowErrorsAreIsolated ==
    /\ [](pc \in RowScanPcs =>
            \A r \in 0..(idx - 1) :
                \E i \in 1..Len(log) : log[i].page = page_num /\ log[i].row = r)
    /\ [][(pc \in PipelinePcs \/ (pc = "row" /\ idx < Len(Rows))) =>
            /\ pc' \in RowScanPcs \cup {"break"}
            /\ page_num' = page_num
            /\ stopReason' = stopReason
            /\ idx' \in {idx, idx + 1}
            /\ (pc = "rowEnd" => (pc' = "row" /\ idx' = idx + 1))
            /\ (pc' = "break" => (IsLawCrawler /\ Decision(CurRow) = "already"))]_vars

C24_Witness ==
    /\ runInfo.out # << >>
    /\ runInfo.out[Len(runInfo.out)].exc
    /\ log # << >>
    /\ log[Len(log)].page = page_num
    /\ log[Len(log)].row = idx - 1
    /\ \E i \in 1..Len(log) :
          /\ log[i].page = page_num
          /\ log[i].row = idx - 2
          /\ log[i].decision = "fetch"

\* C25: a row that was selected for fetch and ends without its identifier in
\* the history has had a record appended to the failure file while it was
\* handled.
C25_EveryFailureRecorded ==
    (RowFinished /\ pdf_filename \notin processed_files) =>
        /\ Len(failFile) > Len(rowInfo.failFile0)
        /\ StartsWith(failFile, rowInfo.failFile0 \o law_name \o <<"|">>)

\* C26: within a run no step removes an identifier from the history set or
\* from the history file: both always hold what was loaded at startup.
C26_HistoryOnlyGrows ==
    /\ [](pc # "idle" =>
            /\ runInfo.hist0 \subseteq processed_files
            /\ runInfo.hist0 \subseteq load_processed_laws(histFile))
    /\ [][/\ processed_files \subseteq processed_files'
          /\ load_processed_laws(histFile) \subseteq load_processed_laws(histFile')]_vars

C26_Witness ==
    /\ pc = "done"
    /\ runInfo.hist0 # {}
    /\ processed_files # runInfo.hist0
    /\ load_processed_laws(histFile) # runInfo.hist0
    /\ runInfo.hist0 \subseteq load_processed_laws(histFile)

\* C27: after every completed row the identifiers of the history file are
\* exactly those of the history set, also when the append to the file failed.
C27_WriteThrough ==
    pc = "rowEnd" => load_processed_laws(histFile) = processed_files

\* C28: in repealed_crawler_final every identifier of the history set has its
\* object in the bucket, from the reconciliation on.
C28_HistoryIsRemote ==
    (~IsLawCrawler /\ pc # "idle") =>
        \A id \in processed_files : remote[id] # "absent"

\* C29: once download_pdf has succeeded for the row's identifier, at every later
\* position of the row pipeline the file is in the local directory or the
\* object is in the bucket, and no step removes a local file unless
\* upload_to_s3 has returned True for it and its object is in the bucket.
C29_DurableSomewhere ==
    /\ []((pc \in PipelinePcs /\ rowInfo.dl = "ok") =>
            /\ local[pdf_filename] # "absent" \/ remote[pdf_filename] # "absent"
            /\ local[pdf_filename] = "absent" => rowInfo.up = "ok")
    /\ [][\A id \in AllIds :
            (local[id] # "absent" /\ local'[id] = "absent") =>
                /\ id = pdf_filename
                /\ rowInfo.up = "ok"
                /\ remote[id] # "absent"]_vars

C29_Witness ==
    /\ pc = "record"
    /\ rowInfo.dl = "ok"
    /\ local[pdf_filename] = "absent"
    /\ remote[pdf_filename] # "absent"

(* The display names save_failed_law has written a line for: name|reason *)
RecordedFailed(file) ==
    LET ls == Lines(file)
    IN  {n \in CrawlNames : \E i \in 1..Len(ls) : StartsWith(ls[i], n \o << "|" >>)}

\* C30: in a later run of repealed_crawler_final, every row whose display name
\* has a record in the failure file found at startup, and that is neither in
\* the history nor repealed, is skipped as previously failed.
C30_FailedRowsStaySkipped ==
    (~IsLawCrawler /\ runInfo.run > 1) =>
        \A i \in 1..Len(log) :
            (/\ log[i].decision # "nolink"
             /\ RowName(log[i]) \in RecordedFailed(runInfo.failFile0)
             /\ PdfName(RowName(log[i])) \notin runInfo.hist0
             /\ ~is_repealed(RowName(log[i]), repealed_names))
                => log[i].decision = "failed"

UpperChar(c) ==
    CASE c = "a" -> "A"
      [] c = "f" -> "F"
      [] c = "i" -> "I"
      [] OTHER -> c

(* The texts one edit away from s that differ from it only in the case of a *)
(* letter or in the amount or kind of whitespace at an end or inside a run  *)
Respell(s) ==
    {[s EXCEPT ![i] = LowerChar(s[i])] : i \in 1..Len(s)}
        \cup {[s EXCEPT ![i] = UpperChar(s[i])] : i \in 1..Len(s)}
        \cup {<< w >> \o s : w \in Whitespace}
        \cup {s \o << w >> : w \in Whitespace}
        \cup {SubSeq(s, 1, i) \o << w >> \o SubSeq(s, i + 1, Len(s)) :
                 i \in {j \in 1..Len(s) : s[j] \in Whitespace}, w \in Whitespace}
        \cup {[s EXCEPT ![i] = w] :
                 i \in {j \in 1..Len(s) : s[j] \in Whitespace}, w \in Whitespace}
        \cup {SubSeq(s, 1, i - 1) \o SubSeq(s, i + 1, Len(s)) :
                 i \in {j \in 1..Len(s) :
                           /\ s[j] \in Whitespace
                           /\ \/ j = 1
                              \/ j = Len(s)
                              \/ s[j - 1] \in Whitespace
                              \/ s[j + 1] \in Whitespace}}

\* C34: normalising a name twice gives what normalising it once gives, a
\* respelling of a name (letter case, amount of whitespace) has the same
\* normal form, and the answer of is_repealed is the same for every respelling
\* of the name and of any entry of the registry.
C34_NormalizationInvariance ==
    q_res \in {"True", "False"} =>
        /\ Normalize(Normalize(q_name)) = Normalize(q_name)
        /\ \A n \in Respell(q_name) :
              /\ Normalize(n) = Normalize(q_name)
              /\ is_repealed(n, q_reg) = (q_res = "True")
        /\ \A e \in q_reg : \A f \in Respell(e) :
              is_repealed(q_name, (q_reg \ {e}) \cup {f}) = (q_res = "True")

C34_Witness ==
    /\ q_res = "True"
    /\ \E i \in 1..Len(q_name) : q_name[i] = "A"
    /\ \E i \in 1..Len(q_name) : q_name[i] \in Whitespace
    /\ \E e \in q_reg : e # q_name /\ \E i \in 1..Len(e) : e[i] = "a"

\* C35: an identifier that save_processed_law has appended to an empty history
\* file is read back by load_processed_laws as exactly that identifier.
C35_HistoryRoundTrip ==
    \A i \in 1..Len(s_ids) :
        load_processed_laws(save_processed_law(<< >>, s_ids[i])) = {s_ids[i]}

(* What the handling of the current row has appended to the failure file *)
FailureAdded == SubSeq(failFile, Len(rowInfo.failFile0) + 1, Len(failFile))

\* C36: while a row is handled and when it is finished, at most one record has
\* been appended to the failure file for it, and if one has, the row's
\* identifier has not been added to the history set or file by this row.
C36_FailedOrRecorded ==
    rowInfo.fetch =>
        /\ StartsWith(failFile, rowInfo.failFile0)
        /\ Cardinality({i \in 1..Len(FailureAdded) : FailureAdded[i] = "\n"}) <= 1
        /\ FailureAdded # << >> =>
              /\ processed_files = rowInfo.hist0
              /\ histFile = rowInfo.histFile0

C36_Witness ==
    /\ RowFinished
    /\ detail_attempt = DetailAttempts - 1
    /\ rowInfo.tried # << >>
    /\ FailureAdded # << >>

(* What this run has appended to the history file *)
HistoryAdded == SubSeq(histFile, Len(HistoryText(runInfo.hist0)) + 1, Len(histFile))

\* C37: within a run no identifier is appended to the history file twice, nor
\* one that the history held at startup, and a row whose identifier is in the
\* history set when the row is reached, for instance because an earlier row of
\* this run was ingested under it, is skipped as already ingested: nothing is
\* fetched, uploaded, removed or appended for it.
C37_OneRowAtATime ==
    /\ [](pc # "idle" =>
            LET ls == Lines(HistoryAdded)
            IN  \A i \in 1..Len(ls) :
                    /\ ls[i] \notin runInfo.hist0
                    /\ \A j \in 1..Len(ls) : i # j => ls[i] # ls[j])
    /\ [][(/\ pc = "row"
           /\ idx < Len(Rows)
           /\ CurRow.link
           /\ PdfName(CurRow.name) \in processed_files) =>
              /\ log' = Append(log, LogEntry("already"))
              /\ pc' \in {"row", "break"}
              /\ UNCHANGED << local, remote, histFile, failFile, processed_files,
                              httpLog >>]_vars

C37_Witness ==
    /\ log # << >>
    /\ log[Len(log)].decision = "already"
    /\ PdfName(RowName(log[Len(log)])) \notin runInfo.hist0
    /\ PdfName(RowName(log[Len(log)])) \in load_processed_laws(HistoryAdded)
    /\ \E i \in 1..(Len(log) - 1) :
          /\ log[i].decision = "fetch"
          /\ PdfName(RowName(log[i])) = PdfName(RowName(log[Len(log)]))

(* The previous run downloaded the file of this identifier and its upload failed *)
UploadFailedBefore(id) ==
    \E k \in 1..Len(runInfo.prevOut) :
        /\ runInfo.prevOut[k].id = id
        /\ runInfo.prevOut[k].dl = "ok"
        /\ runInfo.prevOut[k].up = "fail"
        /\ \A m \in (k + 1)..Len(runInfo.prevOut) : runInfo.prevOut[m].id # id

SelectedAgain ==
    \A i \in 1..Len(log) :
        (/\ log[i].decision # "nolink"
         /\ catalog.pages[log[i].page][log[i].row + 1].href
         /\ UploadFailedBefore(PdfName(RowName(log[i]))))
            => log[i].decision = "fetch"

NoNetworkFetch ==
    (pc = "dlret" /\ UploadFailedBefore(pdf_filename)) => (dlResult /\ httpLog = << >>)

RecordedWhenUploaded ==
    (RowFinished /\ UploadFailedBefore(pdf_filename) /\ rowInfo.up = "ok") =>
        /\ pdf_filename \in processed_files
        /\ local[pdf_filename] = "absent"

\* C38: a row whose upload failed in the previous run is selected for fetch in
\* this run, download_pdf returns True from the local copy without any HTTP
\* attempt, and when the upload then succeeds the identifier is in the history
\* and the local copy is gone.
C38_RetryFromLocalCopy ==
    runInfo.run > 1 =>
        /\ SelectedAgain
        /\ NoNetworkFetch
        /\ RecordedWhenUploaded

----------------------------------------------------------------------------
(* The session: run modes, startup, the closing of the run *)

RefreshPcs == {"main", "refresh", "save"}

(* scrape_india_code has loaded its files and has not been cut short by a *)
(* failed write of the registry                                          *)
SweepStarted == pc \notin RefreshPcs \cup {"load"} /\ stopReason # "save_error"

(* C31: the run mode selects the phases. With --repealed-only the sweep never *)
(* runs: the session stays in the refresh and the history file, the failure  *)
(* file, the progress file, the local directory and the bucket never change. *)
(* With --crawler-only (and in law_crawler) the registry file is never       *)
(* written. In the full pipeline the registry file is written before the     *)
(* sweep loads it and never after: once the sweep has started after a        *)
(* refresh that returned entries, the file holds those entries and           *)
(* REPEALED_LAWS is what the file holds.                                     *)
C31_ModeSelectsPhases ==
    /\ [](args = "repealed_only" => pc \in RefreshPcs \cup {"exit", "propagated"})
    /\ [][args = "repealed_only" => UNCHANGED << storeVars, failFile, progress >>]_vars
    /\ [][(args \in {"crawler_only", "none"}) => UNCHANGED repealed_file]_vars
    /\ [][(args = "full" /\ pc \notin RefreshPcs) => UNCHANGED repealed_file]_vars
    /\ []((args = "full" /\ SweepStarted)
            => /\ repealed_names = load_repealed_laws(repealed_file)
               /\ laws # << >> => repealed_file = RegistryFile(NamesOf(laws)))

C31_Witness ==
    /\ args = "full"
    /\ laws = << RepEntry, NewAct >>
    /\ NewAct \in repealed_names
    /\ skipped_repealed > 0
    /\ pc = "exit"

(* C39: in the full pipeline of repealed_crawler_final a refresh that returns  *)
(* no entries leaves the registry file as it was and the sweep is the next    *)
(* thing to run, loading that file; a step changes the registry file only     *)
(* when the refresh has returned at least one entry.                          *)
C39_EmptyRefreshKeepsRegistry ==
    /\ [][(args = "full" /\ pc = "save" /\ laws = << >>)
            => (UNCHANGED repealed_file /\ pc' = "load")]_vars
    /\ [][(repealed_file' # repealed_file) => laws # << >>]_vars
    /\ []((args = "full" /\ laws = << >> /\ SweepStarted)
            => repealed_names = load_repealed_laws(repealed_file))

C39_Witness ==
    /\ args = "full"
    /\ laws = << >>
    /\ repealed_file = RegistryFile({RepEntry})
    /\ skipped_repealed > 0
    /\ pc = "exit"

Terminal == pc \in {"exit", "propagated"}

(* C32: every bounded loop ends. download_pdf makes at most MaxAttempts HTTP    *)
(* requests for one URL, the detail page of a row is opened at most            *)
(* DetailAttempts times, the startup search makes at most max_retries          *)
(* attempts, and a session over a catalog of finitely many pages, whose last   *)
(* page has no usable next control, reaches a terminal state: the script       *)
(* returns or the error goes up to the caller.                                 *)
C32_EveryLoopEnds ==
    /\ [](/\ attempt < MaxAttempts
          /\ Len(httpLog) <= MaxAttempts
          /\ detail_attempt <= DetailAttempts
          /\ pc = "detail" => detail_attempt < DetailAttempts
          /\ search_attempt <= max_retries)
    /\ <>Terminal

C32_Witness ==
    /\ Terminal
    /\ search_attempt = max_retries
    /\ total_downloaded > 0
    /\ page_num > 1

(* The search gave up, the table was not found, the click on the next control *)
(* raised, or the rows of a listing page did not appear                      *)
NavigationFailed == stopReason = "error" \/ runInfo.norows

AbortPcs == {"raised", "finally", "propagated"}

(* C33: an unrecoverable navigation error aborts the run. Once the search has  *)
(* given up, the table was not found or the row listing did not appear, the   *)
(* session is on its way out through the outer handler; when the error has    *)
(* reached the caller the diagnostics were attempted and the browser is       *)
(* closed; and from the error on no row is scanned, no page is turned and the *)
(* history, in memory and on disk, stays what it was.                         *)
C33_NavigationErrorAborts ==
    /\ [](NavigationFailed => pc \in AbortPcs)
    /\ []((pc = "propagated" /\ stopReason = "error")
            => (browser = "closed" /\ diagnostics # "none"))
    /\ [][NavigationFailed
            => UNCHANGED << processed_files, histFile, idx, page_num, log >>]_vars

=============================================================================
